---- MODULE Spec2Model ----
(***************************************************************************)
(* Model of the note pipeline of MAYA (src/music_helper.py), of the        *)
(* transcription tool that drives it and of the conversation graph of      *)
(* MusicalAgent (src/maya.py).                                             *)
(*                                                                         *)
(* Durations are quarterLength values counted in sixteenth-note units      *)
(* (quarterLength * 4), so 0.25 -> 1, 1.0 -> 4, 1.5 -> 6, 4.0 -> 16.        *)
(* A correction text is modelled after the two splits the code applies to  *)
(* it: a sequence of entries (split on ","), each entry a sequence of      *)
(* fields (split on ":").                                                  *)
(* A notation document is what music21 parses from the path: absent,       *)
(* unparseable, or a score holding an ordered sequence of elements.  The   *)
(* musicxml writer/parser of music21 is taken to round-trip pitch and      *)
(* duration (spec section 6).                                              *)
(***************************************************************************)
EXTENDS Integers, Sequences, FiniteSets, TLC

VARIABLES fs, assets, mixer, last, messages, node

vars == <<fs, assets, mixer, last, messages, node>>

(* ------------------------------ bounds --------------------------------- *)

\* longest correction text, in entries
MaxEntries == 2

\* longest document the renderer and the playback engine are started on
MaxNotes == 3

\* most tool calls one model response carries
MaxToolCalls == 2

\* longest message list a conversation turn (user input, model response)
\* is started on
MaxMessages == 5

(* --------------------------- documents --------------------------------- *)

AbsentDoc == [kind |-> "absent", els |-> <<>>]

CorruptDoc == [kind |-> "corrupt", els |-> <<>>]

Score(els) == [kind |-> "score", els |-> els]

MkNote(p, q) == [isNote |-> TRUE, pitch |-> p, ql |-> q]

MkChord(ps, q) == [isNote |-> FALSE, pitch |-> ps, ql |-> q]

\* os.path.exists
Exists(path) == fs[path].kind # "absent"

(* --------------------------- Note-Text codec --------------------------- *)

\* duration_map of update_musicxml, values in sixteenth units
duration_map ==
    [n \in {"16th", "eighth", "quarter", "half", "whole"} |->
        CASE n = "16th" -> 1
          [] n = "eighth" -> 2
          [] n = "quarter" -> 4
          [] n = "half" -> 8
          [] n = "whole" -> 16]

\* dur_val.strip().lower() on the duration fields of the model
StripLower(s) ==
    CASE s = " Half" -> "half"
      [] s = "QUARTER" -> "quarter"
      [] OTHER -> s

\* the literals float() accepts, with their value in sixteenth units
FloatLiterals == {"0.5", "1.0", "1.5", "4.0"}

FloatOf(s) ==
    CASE s = "0.5" -> 2
      [] s = "1.0" -> 4
      [] s = "1.5" -> 6
      [] s = "4.0" -> 16

\* music21.note.Note(pitch_name): the pitch names music21 accepts, mapped
\* to the pitch they denote (named by music21's nameWithOctave)
PitchNames == {"G4", "G#4", "A4", "B4", "C5", "D5", "Bb4", "B-4"}

NotePitch(s) ==
    CASE s = "Bb4" -> "B-4"
      [] OTHER -> s

\* decoding of one entry: lines 278-287
DecodeEntry(entry) ==
    IF Len(entry) # 2
    THEN [ok |-> FALSE, note |-> MkNote("", 0)]
    ELSE LET pitch_name == entry[1]
             dur_val == entry[2]
             named == StripLower(dur_val) \in DOMAIN duration_map
         IN  IF ~named /\ dur_val \notin FloatLiterals
             THEN [ok |-> FALSE, note |-> MkNote("", 0)]
             ELSE IF pitch_name \notin PitchNames
             THEN [ok |-> FALSE, note |-> MkNote("", 0)]
             ELSE [ok |-> TRUE,
                   note |-> MkNote(NotePitch(pitch_name),
                                   IF named THEN duration_map[StripLower(dur_val)]
                                            ELSE FloatOf(dur_val))]

\* the loop of lines 277-288 from entry i on, new_stream holding stream
RECURSIVE DecodeFrom(_, _, _)
DecodeFrom(text, i, stream) ==
    IF i > Len(text)
    THEN [ok |-> TRUE, stream |-> stream]
    ELSE LET d == DecodeEntry(text[i])
         IN  IF d.ok
             THEN DecodeFrom(text, i + 1, Append(stream, d.note))
             ELSE [ok |-> FALSE, stream |-> stream]

Decode(text) == DecodeFrom(text, 1, <<>>)

\* music21's duration.type of a quarterLength (dots are not part of the type)
DurationType(q) ==
    CASE q = 0 -> "zero"
      [] q \in {1} -> "16th"
      [] q \in {2, 3} -> "eighth"
      [] q \in {4, 6, 7} -> "quarter"
      [] q \in {8, 12, 14} -> "half"
      [] q \in {16, 24, 28} -> "whole"
      [] OTHER -> "complex"

\* result values of a stage
StrRet(status, notes) == [kind |-> "str", status |-> status, notes |-> notes]

RaiseRet(what) == [kind |-> "raise", status |-> what, notes |-> <<>>]

NoneRet == [kind |-> "none", status |-> "none", notes |-> <<>>]

\* the notes_list built by lines 85-91, one <<name, type>> per note;
\* ok is FALSE when the chord branch (line 90) raises TypeError
RECURSIVE NotesList(_, _, _)
NotesList(els, i, acc) ==
    IF i > Len(els)
    THEN [ok |-> TRUE, list |-> acc]
    ELSE IF els[i].isNote
    THEN NotesList(els, i + 1, Append(acc, <<els[i].pitch, DurationType(els[i].ql)>>))
    ELSE [ok |-> FALSE, list |-> acc]

\* get_notes_from_xml parsing the path without looking whether it exists
GetNotesRet_unguarded(doc) ==
    IF doc.kind \in {"absent", "corrupt"}
    THEN RaiseRet("parse")
    ELSE LET r == NotesList(doc.els, 1, <<>>)
         IN  IF r.ok THEN StrRet("found", r.list) ELSE RaiseRet("TypeError")

\* get_notes_from_xml on document doc
GetNotesRet(doc) ==
    IF doc.kind = "absent"
    THEN StrRet("not_found", <<>>)
    ELSE IF doc.kind = "corrupt"
    THEN RaiseRet("parse")
    ELSE LET r == NotesList(doc.els, 1, <<>>)
         IN  IF r.ok THEN StrRet("found", r.list) ELSE RaiseRet("TypeError")

(* --------------------------- Document store --------------------------- *)

\* a write that extends the score already at the path
WriteStream_append(f, path, stream) ==
    [f EXCEPT ![path] = Score(f[path].els \o stream)]

\* new_stream.write("musicxml", fp=output_path): the document at the path is
\* replaced by the stream
WriteStream(f, path, stream) == [f EXCEPT ![path] = Score(stream)]

\* a write that is reached whether or not the loop ran to its end
CommitStream_always(f, path, d, writable) ==
    IF writable THEN WriteStream(f, path, d.stream) ELSE f

\* the write of line 296 is reached only when the loop of lines 277-288 ran
\* to its end; writable is whether the write itself succeeds
CommitStream(f, path, d, writable) ==
    IF d.ok /\ writable THEN WriteStream(f, path, d.stream) ELSE f

\* update_musicxml(xml_path, corrected_notes_text)
UpdateMusicxml(xml_path, text, writable) ==
    LET d == Decode(text)
        summary == GetNotesRet(fs'[xml_path])
    IN  /\ fs' = CommitStream(fs, xml_path, d, writable)
        /\ last' = [op |-> "update", path |-> xml_path, text |-> text,
                    decoded |-> d.ok,
                    before |-> [kind |-> fs[xml_path].kind,
                                len |-> Len(fs[xml_path].els)],
                    ret |-> IF d.ok /\ writable /\ summary.kind = "str"
                            THEN summary
                            ELSE StrRet("error_parsing", <<>>)]
        /\ UNCHANGED <<assets, mixer>>

\* get_notes_from_xml(file_path)
GetNotesFromXml(file_path) ==
    /\ last' = [op |-> "get_notes", path |-> file_path,
                ret |-> GetNotesRet(fs[file_path]),
                parsed |-> Exists(file_path)]
    /\ UNCHANGED <<fs, assets, mixer>>

(* --------------------------- Playback engine --------------------------- *)

\* pitch.accidental.name == "sharp"
IsSharp(p) == p \in {"G#4"}

\* music21's getLowerEnharmonic: the spelling a diminished second below
LowerEnharmonic(p) ==
    CASE p = "G#4" -> "F###4"
      [] OTHER -> p

\* filename_base.replace("-", "b") + ".mp3"
FlatAsB(base) ==
    CASE base = "G4" -> "G4.mp3"
      [] base = "A4" -> "A4.mp3"
      [] base = "B4" -> "B4.mp3"
      [] base = "C5" -> "C5.mp3"
      [] base = "D5" -> "D5.mp3"
      [] base = "B-4" -> "Bb4.mp3"
      [] base = "F###4" -> "F###4.mp3"

\* lines 149-159: the sample file name of a pitch
SampleFile(p) == FlatAsB(IF IsSharp(p) THEN LowerEnharmonic(p) ELSE p)

\* 0.6 seconds per quarter note, in milliseconds
SecondsPerBeatMs == 600

\* time.sleep(n.duration.quarterLength * 0.6), in milliseconds
SleepMs(q) == (q * SecondsPerBeatMs) \div 4

\* what can happen inside the try of lines 168-177: nothing, an exception
\* before the sleep (Sound, play) or one after it (fadeout)
PlayModes == {"ok", "load", "fade"}

StartMsg == [msg |-> <<>>, slept |-> 0, visited |-> <<>>]

\* a note step in which a missing sample is skipped without the sleep
PlayNote_noRest(n, i, mode, lib, st) ==
    LET filename == SampleFile(n.pitch)
        seen == Append(st.visited, i)
    IN  IF filename \in lib
        THEN [msg |-> st.msg \o <<<<"playing", filename>>>>
                        \o (IF mode = "ok" THEN <<>> ELSE <<<<"error", filename>>>>),
              slept |-> st.slept + (IF mode = "load" THEN 0 ELSE SleepMs(n.ql)),
              visited |-> seen]
        ELSE [msg |-> Append(st.msg, <<"missing", filename>>),
              slept |-> st.slept,
              visited |-> seen]

\* lines 146-181 for one note n at position i
PlayNote(n, i, mode, lib, st) ==
    LET filename == SampleFile(n.pitch)
        seen == Append(st.visited, i)
    IN  IF filename \in lib
        THEN [msg |-> st.msg \o <<<<"playing", filename>>>>
                        \o (IF mode = "ok" THEN <<>> ELSE <<<<"error", filename>>>>),
              slept |-> st.slept + (IF mode = "load" THEN 0 ELSE SleepMs(n.ql)),
              visited |-> seen]
        ELSE [msg |-> Append(st.msg, <<"missing", filename>>),
              slept |-> st.slept + SleepMs(n.ql),
              visited |-> seen]

\* a loop that a failing sample ends
RECURSIVE PlayFrom_abort(_, _, _, _, _)
PlayFrom_abort(els, i, modes, lib, st) ==
    IF i > Len(els)
    THEN st
    ELSE IF els[i].isNote
    THEN IF modes[i] # "ok"
         THEN PlayNote(els[i], i, modes[i], lib, st)
         ELSE PlayFrom_abort(els, i + 1, modes, lib, PlayNote(els[i], i, modes[i], lib, st))
    ELSE PlayFrom_abort(els, i + 1, modes, lib, st)

\* the loop of lines 145-181 from element i on
RECURSIVE PlayFrom(_, _, _, _, _)
PlayFrom(els, i, modes, lib, st) ==
    IF i > Len(els)
    THEN st
    ELSE IF els[i].isNote
    THEN PlayFrom(els, i + 1, modes, lib, PlayNote(els[i], i, modes[i], lib, st))
    ELSE PlayFrom(els, i + 1, modes, lib, st)

\* the try of lines 168-177 is entered at element i
EntersTry(doc, lib, i) ==
    /\ doc.kind = "score"
    /\ doc.els[i].isNote
    /\ SampleFile(doc.els[i].pitch) \in lib

\* outcome of play_violin_mp3_library on document doc: the returned value,
\* the time slept, the notes visited and the state of the mixer afterwards;
\* device is whether pygame.mixer.init succeeds
PlayOutcome(doc, lib, device, modes, mix) ==
    IF ~device
    THEN [ret |-> RaiseRet("mixer"), slept |-> 0, visited |-> <<>>, mixer |-> mix]
    ELSE IF doc.kind = "absent"
    THEN [ret |-> StrRet("xml_not_found", <<>>), slept |-> 0, visited |-> <<>>,
          mixer |-> "init"]
    ELSE IF doc.kind = "corrupt"
    THEN [ret |-> RaiseRet("parse"), slept |-> 0, visited |-> <<>>, mixer |-> "init"]
    ELSE LET st == PlayFrom(doc.els, 1, modes, lib, StartMsg)
         IN  [ret |-> StrRet("finished", st.msg), slept |-> st.slept,
              visited |-> st.visited, mixer |-> "quit"]

\* play_violin_mp3_library(xml_path)
PlayViolinMp3Library(xml_path, device, modes) ==
    LET doc == fs[xml_path]
        o == PlayOutcome(doc, assets, device, modes, mixer)
    IN  /\ DOMAIN modes = 1..Len(doc.els)
        /\ \A i \in DOMAIN modes :
              modes[i] # "ok" => device /\ EntersTry(doc, assets, i)
        /\ mixer' = o.mixer
        /\ last' = [op |-> "play", path |-> xml_path, inited |-> device,
                    modes |-> modes, ret |-> o.ret, slept |-> o.slept,
                    visited |-> o.visited]
        /\ UNCHANGED <<fs, assets>>

(* --------------------------- Visual renderer --------------------------- *)

\* n.pitch.diatonicNoteNum (C4 is 29, B4 is 35)
DiatonicNoteNum(p) ==
    CASE p = "G4" -> 33
      [] p = "G#4" -> 33
      [] p = "A4" -> 34
      [] p = "B-4" -> 35
      [] p = "B4" -> 35
      [] p = "C5" -> 36
      [] p = "D5" -> 37

X_START == 100

BEAT_WIDTH == 150

LINE_SPACING == 500

\* MAX_DURATION_PER_LINE = 4.0 quarter lengths, in sixteenth units
MAX_DURATION_PER_LINE == 16

Y_BASE == 544

STEP_PIXELS == 15

STEM_FLIP == 35

\* Image.new("RGBA", (2500, 3000), ...)
CANVAS_WIDTH == 2500

CANVAS_HEIGHT == 3000

StaffFile == "blank_staff.png"

\* f"{n.duration.type}.png" and f"{n.duration.type}_rev.png"
GlyphFile(type, rev) ==
    CASE type = "16th" -> IF rev THEN "16th_rev.png" ELSE "16th.png"
      [] type = "eighth" -> IF rev THEN "eighth_rev.png" ELSE "eighth.png"
      [] type = "quarter" -> IF rev THEN "quarter_rev.png" ELSE "quarter.png"
      [] type = "half" -> IF rev THEN "half_rev.png" ELSE "half.png"
      [] type = "whole" -> IF rev THEN "whole_rev.png" ELSE "whole.png"
      [] OTHER -> IF rev THEN "other_rev.png" ELSE "other.png"

\* lines 207-215: cursor, offset and accumulator before the loop, the first
\* staff tile composited at offset 0
StartSheet ==
    [x |-> X_START, yoff |-> 0, acc |-> 0, wraps |-> 0, tiles |-> <<0>>,
     placed |-> <<>>, rejected |-> <<>>, raised |-> FALSE]

\* lines 219-223: the wrap before a note is placed
WrapLine(st) ==
    IF st.acc > MAX_DURATION_PER_LINE
    THEN [st EXCEPT !.x = X_START,
                    !.yoff = st.yoff + LINE_SPACING,
                    !.acc = 0,
                    !.wraps = st.wraps + 1,
                    !.tiles = Append(st.tiles, st.yoff + LINE_SPACING)]
    ELSE st

\* a glyph choice that reverses the stem only above step 35
Sticker_above(n, lib) ==
    LET type == DurationType(n.ql)
        sticker_name == GlyphFile(type, DiatonicNoteNum(n.pitch) > STEM_FLIP)
    IN  IF sticker_name \in lib THEN sticker_name
        ELSE IF GlyphFile(type, FALSE) \in lib THEN GlyphFile(type, FALSE)
        ELSE ""

\* lines 227-238: the glyph opened for note n, "" when neither file exists
Sticker(n, lib) ==
    LET type == DurationType(n.ql)
        sticker_name == GlyphFile(type, DiatonicNoteNum(n.pitch) >= STEM_FLIP)
    IN  IF sticker_name \in lib THEN sticker_name
        ELSE IF GlyphFile(type, FALSE) \in lib THEN GlyphFile(type, FALSE)
        ELSE ""

\* lines 218-250 for one note: the glyph is opened (FileNotFoundError when
\* no file exists) and composited at (x_cursor, y_offset); alpha_composite
\* rejects a negative destination with ValueError and crops what lies beyond
\* the right and bottom edges
RenderNote(n, lib, st0) ==
    LET st == WrapLine(st0)
        sticker == Sticker(n, lib)
        y_offset == (Y_BASE + st.yoff) - (DiatonicNoteNum(n.pitch) * STEP_PIXELS)
    IN  IF sticker = ""
        THEN [st EXCEPT !.raised = TRUE]
        ELSE IF st.x < 0 \/ y_offset < 0
        THEN [st EXCEPT !.rejected = Append(st.rejected, <<st.x, y_offset, sticker>>),
                        !.raised = TRUE]
        ELSE [st EXCEPT !.placed = Append(st.placed, <<st.x, y_offset, sticker>>),
                        !.x = st.x + ((n.ql * BEAT_WIDTH * 2) \div 4),
                        !.acc = st.acc + n.ql]

\* the loop of lines 217-250 from element i on
RECURSIVE RenderFrom(_, _, _, _)
RenderFrom(els, i, lib, st) ==
    IF i > Len(els) \/ st.raised
    THEN st
    ELSE IF els[i].isNote
    THEN RenderFrom(els, i + 1, lib, RenderNote(els[i], lib, st))
    ELSE RenderFrom(els, i + 1, lib, st)

\* outcome of generate_visual_sheet on document doc; display is whether
\* master_canvas.show() succeeds
RenderOutcome(doc, lib, display) ==
    IF StaffFile \notin lib \/ doc.kind # "score"
    THEN [ret |-> RaiseRet("open"), sheet |-> StartSheet, saved |-> FALSE]
    ELSE LET st == RenderFrom(doc.els, 1, lib, StartSheet)
         IN  IF st.raised
             THEN [ret |-> RaiseRet("composite"), sheet |-> st, saved |-> FALSE]
             ELSE IF ~display
             THEN [ret |-> RaiseRet("show"), sheet |-> st, saved |-> FALSE]
             ELSE [ret |-> NoneRet, sheet |-> st, saved |-> TRUE]

\* generate_visual_sheet(xml_path)
GenerateVisualSheet(xml_path, display) ==
    LET o == RenderOutcome(fs[xml_path], assets, display)
    IN  /\ last' = [op |-> "render", path |-> xml_path, ret |-> o.ret,
                    sheet |-> o.sheet, saved |-> o.saved]
        /\ UNCHANGED <<fs, assets, mixer>>

(* ------------------------------ pipeline ------------------------------- *)

\* os.path.basename
Basename(path) ==
    CASE path = "scores/song.musicxml" -> "song.musicxml"
      [] OTHER -> path

\* save_visual_sheet on document doc; pngTool is whether score.write of the
\* png succeeds
SaveVisualOutcome(doc, pngTool) ==
    IF doc.kind # "score" THEN RaiseRet("parse")
    ELSE IF ~pngTool THEN RaiseRet("write")
    ELSE StrRet("png_saved", <<>>)

\* save_violin_mp3_library on document doc: a failing conversion is caught
\* (lines 108-126), a failing parse is not
SaveViolinOutcome(doc, converts) ==
    IF doc.kind # "score" THEN RaiseRet("parse")
    ELSE IF converts THEN StrRet("mp3_created", <<>>)
    ELSE StrRet("midi_created", <<>>)

\* outcome of process_and_play: the three try blocks of lines 57-70; tools is
\* whether the external writers (png export, fluidsynth) work
ProcessOutcome(doc, lib, display, device, modes, tools, mix) ==
    LET sheet == RenderOutcome(doc, lib, display)
        visual == IF sheet.ret.kind = "raise"
                  THEN SaveVisualOutcome(doc, tools)
                  ELSE sheet.ret
        play == PlayOutcome(doc, lib, device, modes, mix)
        audio == IF play.ret.kind = "raise"
                 THEN SaveViolinOutcome(doc, tools)
                 ELSE play.ret
        summary == GetNotesRet(doc)
    IN  IF visual.kind = "raise"
        THEN [ret |-> visual, mixer |-> mix, played |-> FALSE]
        ELSE IF audio.kind = "raise"
        THEN [ret |-> audio, mixer |-> play.mixer, played |-> FALSE]
        ELSE [ret |-> IF summary.kind = "raise" THEN NoneRet ELSE summary,
              mixer |-> play.mixer,
              played |-> play.ret.kind = "str"]

\* process_and_play(full_path)
ProcessAndPlay(full_path, display, device, modes, tools) ==
    LET file_path == Basename(full_path)
        doc == fs[file_path]
        o == ProcessOutcome(doc, assets, display, device, modes, tools, mixer)
    IN  /\ DOMAIN modes = 1..Len(doc.els)
        /\ \A i \in DOMAIN modes :
              modes[i] # "ok" => device /\ EntersTry(doc, assets, i)
        /\ mixer' = o.mixer
        /\ last' = [op |-> "process", path |-> full_path, file |-> file_path,
                    ret |-> o.ret, played |-> o.played]
        /\ UNCHANGED <<fs, assets>>

\* what the oemer subprocess can do: exit 0, exit with an error code, be
\* missing (FileNotFoundError), or fail in another way
OemerResults == {"ok", "exit_code", "not_found", "exception"}

\* the message run_oemer_with_updates returns: lines 39-51
OemerRet(result) ==
    CASE result = "ok" -> StrRet("oemer_success", <<>>)
      [] result = "exit_code" -> StrRet("oemer_exit_code", <<>>)
      [] result = "not_found" -> StrRet("oemer_not_found", <<>>)
      [] result = "exception" -> StrRet("oemer_unexpected", <<>>)

\* the document oemer leaves next to the image when it exits with 0
ImageXml(image_path) ==
    CASE image_path = "song.png" -> "song.musicxml"
      [] image_path = "scores/song.png" -> "scores/song.musicxml"

\* run_oemer_with_updates(image_path); omrDoc is what oemer recognised
RunOemerWithUpdates(image_path, result, omrDoc) ==
    /\ fs' = IF result = "ok"
             THEN [fs EXCEPT ![Basename(ImageXml(image_path))] = omrDoc]
             ELSE fs
    /\ last' = [op |-> "oemer", path |-> image_path, ret |-> OemerRet(result)]
    /\ UNCHANGED <<assets, mixer>>

\* VisionTranscribeTool._run(image_path): tier 1 returns whatever
\* run_oemer_with_updates returns; tier 2 runs when tier 1 raised; vision is
\* whether the image can be read and the model answers, notes_text the answer
VisionTranscribe(image_path, result, omrDoc, vision, notes_text) ==
    LET tier1 == OemerRet(result)
        afterOmr == IF result = "ok"
                    THEN [fs EXCEPT ![Basename(ImageXml(image_path))] = omrDoc]
                    ELSE fs
        xml_path == ImageXml(image_path)
        d == Decode(notes_text)
    IN  IF tier1.kind # "raise"
        THEN /\ fs' = afterOmr
             /\ last' = [op |-> "transcribe", path |-> image_path, omr |-> result,
                         visionTried |-> FALSE, ret |-> tier1]
             /\ UNCHANGED <<assets, mixer>>
        ELSE /\ fs' = IF vision THEN CommitStream(afterOmr, xml_path, d, TRUE)
                                ELSE afterOmr
             /\ last' = [op |-> "transcribe", path |-> image_path, omr |-> result,
                         visionTried |-> TRUE,
                         ret |-> IF vision THEN StrRet("vision_fallback", <<>>)
                                           ELSE StrRet("total_failure", <<>>)]
             /\ UNCHANGED <<assets, mixer>>

(* ------------------------------- agent --------------------------------- *)

\* the conversation graph of MusicalAgent: the state's message list and the
\* node the graph is about to run
agent == <<messages, node>>

\* no conversation is running
AgentOff == messages = <<>> /\ node = "off"

ToolNames == {"vision_literal_transcription", "update_musicxml_from_text",
              "Review_Process_and_Play", "list_workspace_files",
              "clear_conversation_history"}

AIMessage(calls) == [type |-> "ai", content |-> "", tool_calls |-> calls, tool_call_id |-> 0]

HumanMessage(content) ==
    [type |-> "human", content |-> content, tool_calls |-> <<>>, tool_call_id |-> 0]

ToolMessage(id) == [type |-> "tool", content |-> "", tool_calls |-> <<>>, tool_call_id |-> id]

SystemMessage(content) ==
    [type |-> "system", content |-> content, tool_calls |-> <<>>, tool_call_id |-> 0]

Greeting == [AIMessage(<<>>) EXCEPT !.content = "what can I do for you today?"]

ResetNotice == SystemMessage("Conversation reset by user request.")

\* the reducer of AgentState.messages: a node's messages carry fresh ids, so
\* they are appended to the list the state holds
add_messages(left, right) == left \o right

\* tool calls issued so far; the ids of a response continue the count
RECURSIVE CallCount(_)
CallCount(msgs) ==
    IF msgs = <<>> THEN 0
    ELSE Len(Head(msgs).tool_calls) + CallCount(Tail(msgs))

Calls(names, msgs) ==
    [i \in 1..Len(names) |-> [id |-> CallCount(msgs) + i, name |-> names[i]]]

\* content.lower().strip() of the inputs the sessions type
UserInputs == {"play song.musicxml", "exit", " Quit"}

LowerStrip(content) ==
    IF content = " Quit" THEN "quit" ELSE content

_route_user_input(msgs) ==
    IF LowerStrip(msgs[Len(msgs)].content) \in {"exit", "quit"}
    THEN "end" ELSE "model_response"

mapping(tool_name) ==
    CASE tool_name = "vision_literal_transcription" -> "transcribe"
      [] tool_name = "update_musicxml_from_text" -> "update"
      [] tool_name = "Review_Process_and_Play" -> "review"
      [] tool_name = "list_workspace_files" -> "list_files"
      [] tool_name = "clear_conversation_history" -> "clear"
      [] OTHER -> "user_input"

_check_tool_use(msgs) ==
    LET last_msg == msgs[Len(msgs)]
    IN  IF last_msg.tool_calls = <<>> THEN "user_input"
        ELSE mapping(last_msg.tool_calls[1].name)

\* the last AI message that carries tool calls
LastAiMsg(msgs) ==
    LET idx == {i \in 1..Len(msgs) : msgs[i].type = "ai" /\ msgs[i].tool_calls # <<>>}
    IN  msgs[CHOOSE i \in idx : \A j \in idx : j <= i]

\* a tool node hands the tool's result to ToolMessage, which takes a text;
\* a tool that raised or returned nothing ends the run
Answer(msgs, tool_call, ret) ==
    IF ret.kind = "str"
    THEN add_messages(msgs, <<ToolMessage(tool_call.id)>>)
    ELSE msgs

AfterTool(ret) == IF ret.kind = "str" THEN "model_response" ELSE "crashed"

Run ==
    /\ node = "off"
    /\ messages' = <<Greeting>>
    /\ node' = "user_input"
    /\ UNCHANGED <<fs, assets, mixer, last>>

GetUserInput(user_input) ==
    /\ node = "user_input"
    /\ Len(messages) < MaxMessages
    /\ messages' = add_messages(messages, <<HumanMessage(user_input)>>)
    /\ node' = _route_user_input(messages')
    /\ UNCHANGED <<fs, assets, mixer, last>>

GetModelResponse(names) ==
    /\ node = "model_response"
    /\ Len(messages) < MaxMessages
    /\ messages' = add_messages(messages, <<AIMessage(Calls(names, messages))>>)
    /\ node' = _check_tool_use(messages')
    /\ UNCHANGED <<fs, assets, mixer, last>>

GetTranscribe(image_path, result, omrDoc, vision, notes_text) ==
    /\ node = "transcribe"
    /\ VisionTranscribe(image_path, result, omrDoc, vision, notes_text)
    /\ messages' = Answer(messages, messages[Len(messages)].tool_calls[1], last'.ret)
    /\ node' = AfterTool(last'.ret)

UpdateNode(xml_path, text, writable) ==
    /\ node = "update"
    /\ UpdateMusicxml(xml_path, text, writable)
    /\ messages' = Answer(messages, messages[Len(messages)].tool_calls[1], last'.ret)
    /\ node' = AfterTool(last'.ret)

Review(xml_path, display, device, modes, tools) ==
    /\ node = "review"
    /\ ProcessAndPlay(xml_path, display, device, modes, tools)
    /\ messages' = Answer(messages, LastAiMsg(messages).tool_calls[1], last'.ret)
    /\ node' = AfterTool(last'.ret)

ListFiles ==
    /\ node = "list_files"
    /\ messages' = Answer(messages, messages[Len(messages)].tool_calls[1], StrRet("ok", <<>>))
    /\ node' = "model_response"
    /\ UNCHANGED <<fs, assets, mixer, last>>

ClearHistory ==
    /\ node = "clear"
    /\ messages' = add_messages(messages, <<ResetNotice>>)
    /\ node' = "user_input"
    /\ UNCHANGED <<fs, assets, mixer, last>>

(* ------------------------------ inputs --------------------------------- *)

ValidEntries == {<<"Bb4", " Half">>, <<"C5", "1.5">>}

BadEntries == {<<"G4">>, <<"H4", "quarter">>, <<"A4", "notaduration">>}

Entries == ValidEntries \cup BadEntries

SeqsUpTo(S, n) == UNION {[1..k -> S] : k \in 0..n}

\* "" splits into one entry without a colon, so every text has an entry
Texts == SeqsUpTo(Entries, MaxEntries) \ {<<>>}

StorePath == "song.musicxml"

MissingPath == "missing.musicxml"

DirPath == "scores/song.musicxml"

Paths == {StorePath, MissingPath, DirPath}

ChordDoc == Score(<<MkNote("G4", 4), MkChord("C4 E4", 8)>>)

(* --------------------------- specifications ---------------------------- *)

NoCall == [op |-> "none"]

\* the store: corrections and summaries of one document
InitStore ==
    /\ \E d \in {AbsentDoc, CorruptDoc, ChordDoc} :
          fs = [p \in Paths |-> IF p = StorePath THEN d ELSE AbsentDoc]
    /\ assets = {}
    /\ mixer = "quit"
    /\ last = NoCall
    /\ AgentOff

NextStore ==
    \/ \E t \in Texts, w \in BOOLEAN :
          UpdateMusicxml(StorePath, t, w) /\ UNCHANGED agent
    \/ \E p \in Paths : GetNotesFromXml(p) /\ UNCHANGED agent

Spec == InitStore /\ [][NextStore]_vars

\* playback: sessions over the documents a correction can have written
PlayElems == {MkNote("G4", 4), MkNote("B-4", 8), MkNote("C5", 6), MkNote("G#4", 4),
              MkChord("C4 E4", 8)}

PlayDocs == {Score(els) : els \in SeqsUpTo(PlayElems, MaxNotes)}
                \cup {AbsentDoc, CorruptDoc}

SampleLibraries == {{"G4.mp3", "Bb4.mp3", "Ab4.mp3"}, {"C5.mp3"}}

InitPlay ==
    /\ \E d \in PlayDocs :
          fs = [p \in Paths |-> IF p = StorePath THEN d ELSE AbsentDoc]
    /\ assets \in SampleLibraries
    /\ mixer = "quit"
    /\ last = NoCall
    /\ AgentOff

NextPlay ==
    \E p \in Paths, device \in BOOLEAN :
        \E modes \in [1..Len(fs[p].els) -> PlayModes] :
            PlayViolinMp3Library(p, device, modes) /\ UNCHANGED agent

SpecPlay == InitPlay /\ [][NextPlay]_vars

\* rendering: sheets of the documents a correction can have written
RenderElems == {MkNote("G4", 4), MkNote("B-4", 8), MkNote("C5", 6), MkNote("B4", 16),
                MkNote("D5", 4), MkChord("C4 E4", 8)}

RenderDocs == {Score(els) : els \in SeqsUpTo(RenderElems, MaxNotes)}
                \cup {AbsentDoc, CorruptDoc}

GlyphLibraries ==
    {{"blank_staff.png", "quarter.png", "quarter_rev.png", "half.png", "half_rev.png",
      "whole.png", "whole_rev.png"},
     {"blank_staff.png", "quarter.png", "half.png", "whole.png"},
     {"blank_staff.png", "quarter.png", "quarter_rev.png"},
     {"blank_staff.png", "quarter.png", "half.png", "half_rev.png", "whole.png"},
     {"quarter.png", "half.png", "whole.png"}}

InitRender ==
    /\ \E d \in RenderDocs :
          fs = [p \in Paths |-> IF p = StorePath THEN d ELSE AbsentDoc]
    /\ assets \in GlyphLibraries
    /\ mixer = "quit"
    /\ last = NoCall
    /\ AgentOff

NextRender ==
    \E p \in Paths, display \in BOOLEAN :
        GenerateVisualSheet(p, display) /\ UNCHANGED agent

SpecRender == InitRender /\ [][NextRender]_vars

\* the stages as the orchestrator calls them
OmrDocs == {ChordDoc, Score(<<MkNote("G4", 4), MkNote("B4", 16)>>)}

ImagePaths == {"song.png", "scores/song.png"}

StageTexts == {<<<<"G4", "quarter">>>>,
               <<<<"G4", "quarter">>, <<"B4", "whole">>>>,
               <<<<"C5", "1.5">>, <<"Bb4", " Half">>>>,
               <<<<"G4", "quarter">>, <<"H4", "quarter">>>>}

StageLibraries ==
    {{"blank_staff.png", "quarter.png", "half.png", "whole.png", "whole_rev.png",
      "G4.mp3", "Bb4.mp3"},
     {"quarter.png", "G4.mp3"}}

InitPipeline ==
    /\ \E d \in {AbsentDoc, CorruptDoc} :
          fs = [p \in Paths |-> IF p = StorePath THEN d ELSE AbsentDoc]
    /\ assets \in StageLibraries
    /\ mixer = "quit"
    /\ last = NoCall
    /\ AgentOff

NextPipeline ==
    \/ \E t \in StageTexts, w \in BOOLEAN :
          UpdateMusicxml(StorePath, t, w) /\ UNCHANGED agent
    \/ \E p \in Paths : GetNotesFromXml(p) /\ UNCHANGED agent
    \/ \E p \in Paths, device \in BOOLEAN :
          \E modes \in [1..Len(fs[p].els) -> PlayModes] :
              PlayViolinMp3Library(p, device, modes) /\ UNCHANGED agent
    \/ \E p \in Paths, display \in BOOLEAN :
          GenerateVisualSheet(p, display) /\ UNCHANGED agent
    \/ \E p \in Paths, display \in BOOLEAN, device \in BOOLEAN, tools \in BOOLEAN :
          \E modes \in [1..Len(fs[Basename(p)].els) -> PlayModes] :
              ProcessAndPlay(p, display, device, modes, tools) /\ UNCHANGED agent
    \/ \E img \in ImagePaths, r \in OemerResults, d \in OmrDocs :
          RunOemerWithUpdates(img, r, d) /\ UNCHANGED agent
    \/ \E img \in ImagePaths, r \in OemerResults, d \in OmrDocs, v \in BOOLEAN,
          t \in StageTexts :
          VisionTranscribe(img, r, d, v, t) /\ UNCHANGED agent

SpecPipeline == InitPipeline /\ [][NextPipeline]_vars

\* correction followed by review, on paths with and without a directory
InitReview ==
    /\ fs = [p \in Paths |-> AbsentDoc]
    /\ assets \in StageLibraries
    /\ mixer = "quit"
    /\ last = NoCall
    /\ AgentOff

NextReview ==
    \/ \E p \in {StorePath, DirPath}, t \in StageTexts, w \in BOOLEAN :
          UpdateMusicxml(p, t, w) /\ UNCHANGED agent
    \/ \E p \in Paths, display \in BOOLEAN, device \in BOOLEAN, tools \in BOOLEAN :
          \E modes \in [1..Len(fs[Basename(p)].els) -> PlayModes] :
              ProcessAndPlay(p, display, device, modes, tools) /\ UNCHANGED agent

SpecReview == InitReview /\ [][NextReview]_vars

\* conversations: every tool, responses carrying up to MaxToolCalls calls
AgentTexts == {<<<<"G4", "quarter">>>>, <<<<"G4", "quarter">>, <<"H4", "quarter">>>>}

InitAgent ==
    /\ fs = [p \in Paths |-> AbsentDoc]
    /\ assets \in StageLibraries
    /\ mixer = "quit"
    /\ last = NoCall
    /\ AgentOff

NextAgent ==
    \/ Run
    \/ \E user_input \in UserInputs : GetUserInput(user_input)
    \/ \E names \in SeqsUpTo(ToolNames, MaxToolCalls) : GetModelResponse(names)
    \/ \E r \in OemerResults, d \in OmrDocs :
          GetTranscribe("song.png", r, d, FALSE, <<>>)
    \/ \E t \in AgentTexts, w \in BOOLEAN : UpdateNode(StorePath, t, w)
    \/ \E display \in BOOLEAN, device \in BOOLEAN :
          Review(StorePath, display, device,
                 [i \in 1..Len(fs[StorePath].els) |-> "ok"], TRUE)
    \/ ListFiles
    \/ ClearHistory

SpecAgent == InitAgent /\ [][NextAgent]_vars

(* ------------------------------ claims --------------------------------- *)

UpdateSucceeded == last.op = "update" /\ last.ret.status = "found"

\* C1: a correction text that fails to decode leaves the document at
\* xml_path exactly as it was, and the call returns an error text
C1_FailedDecodeLeavesDocument ==
    [][(last'.op = "update" /\ ~last'.decoded)
         => /\ fs' = fs
            /\ last'.ret.kind = "str"
            /\ last'.ret.status = "error_parsing"]_vars

\* a decode that fails on its second entry, after a valid one, over an
\* existing score
C1_Witness ==
    /\ last.op = "update"
    /\ ~last.decoded
    /\ Len(last.text) = 2
    /\ last.text[1] \in ValidEntries
    /\ last.before.kind = "score"
    /\ last.before.len > 0

\* the duration table as the claim states it, in sixteenth units
ClaimedDuration(name) ==
    CASE name = "16th" -> 1
      [] name = "eighth" -> 2
      [] name = "quarter" -> 4
      [] name = "half" -> 8
      [] name = "whole" -> 16

RECURSIVE TotalDuration(_)
TotalDuration(els) ==
    IF els = <<>> THEN 0
    ELSE (IF Head(els).isNote THEN Head(els).ql ELSE 0) + TotalDuration(Tail(els))

\* the 4.0-quarter boundaries (16, 32, ... sixteenths) a running total that
\* ends at total has gone past
BoundariesCrossed(total) == IF total = 0 THEN 0 ELSE (total - 1) \div 16

\* C7: a rendered sheet has one line wrap, with its fresh staff tile, per
\* 4.0-quarter boundary that the running total of note durations crosses
C7_OneWrapPerBoundary ==
    (last.op = "render" /\ last.saved) =>
        /\ last.sheet.wraps = BoundariesCrossed(TotalDuration(fs[last.path].els))
        /\ Len(last.sheet.tiles) = last.sheet.wraps + 1

IsNoteEl(e) == e.isNote

\* the glyph files of a duration type, as the claim names them
ReversedGlyph(type) ==
    CASE type = "quarter" -> "quarter_rev.png"
      [] type = "half" -> "half_rev.png"
      [] type = "whole" -> "whole_rev.png"

PlainGlyph(type) ==
    CASE type = "quarter" -> "quarter.png"
      [] type = "half" -> "half.png"
      [] type = "whole" -> "whole.png"

\* on a rendered sheet each note carries the reversed-stem glyph exactly
\* when its diatonic step is 35 or more and the reversed file exists; when
\* the reversed file is absent, or the step is below 35, it carries the
\* non-reversed glyph of the same duration name
GlyphChoiceFlipsAt35 ==
    (last.op = "render" /\ last.saved) =>
        LET notes == SelectSeq(fs[last.path].els, IsNoteEl)
            placed == last.sheet.placed
        IN  /\ Len(placed) = Len(notes)
            /\ \A k \in 1..Len(notes) :
                  LET type == DurationType(notes[k].ql)
                      high == DiatonicNoteNum(notes[k].pitch) >= 35
                  IN  placed[k][3] = IF high /\ ReversedGlyph(type) \in assets
                                     THEN ReversedGlyph(type)
                                     ELSE PlainGlyph(type)

\* a sheet whose notes all have their plain glyph on disk does not fail for
\* want of a glyph
NoGlyphFailure ==
    (/\ last.op = "render"
     /\ fs[last.path].kind = "score"
     /\ StaffFile \in assets
     /\ last.sheet.rejected = <<>>
     /\ \A i \in 1..Len(fs[last.path].els) :
           fs[last.path].els[i].isNote
              => PlainGlyph(DurationType(fs[last.path].els[i].ql)) \in assets)
        => ~last.sheet.raised

\* C11: the reversed-stem glyph is selected if and only if the note's
\* diatonic step is at or above 35, and when the reversed glyph file is absent
\* the non-reversed glyph of the same duration name is used instead of
\* failing
C11_StemFlipsAt35 == GlyphChoiceFlipsAt35 /\ NoGlyphFailure

\* one sheet with a note below step 35, a note at step 35 with its reversed
\* glyph, and a note above it whose reversed glyph file is absent
C11_Witness ==
    /\ last.op = "render"
    /\ last.saved
    /\ \E i, j, k \in 1..Len(last.sheet.placed) :
          LET notes == SelectSeq(fs[last.path].els, IsNoteEl)
          IN  /\ DiatonicNoteNum(notes[i].pitch) = 33
              /\ last.sheet.placed[i][3] = "quarter.png"
              /\ DiatonicNoteNum(notes[j].pitch) = 35
              /\ last.sheet.placed[j][3] = "half_rev.png"
              /\ DiatonicNoteNum(notes[k].pitch) = 36
              /\ "quarter_rev.png" \notin assets
              /\ last.sheet.placed[k][3] = "quarter.png"

\* C12: when the document read by get_notes_from_xml contains a chord, the
\* summary is returned as text and lists one token per note or chord, in
\* sequence order
C12_ChordInSummary ==
    (/\ last.op = "get_notes"
     /\ fs[last.path].kind = "score"
     /\ \E i \in 1..Len(fs[last.path].els) : ~fs[last.path].els[i].isNote)
        => /\ last.ret.kind = "str"
           /\ Len(last.ret.notes) = Len(fs[last.path].els)

\* C15: process_and_play(P) on a path P that update_musicxml has written
\* works on the document at P, and the summary it returns is the summary of
\* that document
C15_ReviewReadsUpdatedDocument ==
    (last.op = "process" /\ fs[last.path].kind = "score") =>
        /\ fs[last.file] = fs[last.path]
        /\ last.ret.kind = "str" => last.ret = GetNotesRet(fs[last.path])

\* C17: every staff tile and every glyph is composited at a position inside
\* the 2500x3000 canvas: no placement is refused, and x and y of each are
\* non-negative and below the canvas width and height
C17_PlacementsInsideCanvas ==
    last.op = "render" =>
        /\ last.sheet.rejected = <<>>
        /\ \A k \in 1..Len(last.sheet.placed) :
              /\ 0 <= last.sheet.placed[k][1] /\ last.sheet.placed[k][1] < 2500
              /\ 0 <= last.sheet.placed[k][2] /\ last.sheet.placed[k][2] < 3000
        /\ \A k \in 1..Len(last.sheet.tiles) :
              0 <= last.sheet.tiles[k] /\ last.sheet.tiles[k] < 3000

\* the (pitch, duration) pairs of a decoded stream
Pairs(stream) == [i \in 1..Len(stream) |-> <<stream[i].pitch, stream[i].ql>>]

\* C8: decoding the note list that get_notes_from_xml emits after an update
\* yields the same ordered (pitch, duration) pairs as decoding the correction
\* text itself
C8_DecodeEncodeDecode ==
    UpdateSucceeded =>
        /\ Decode(last.ret.notes).ok
        /\ Pairs(Decode(last.ret.notes).stream) = Pairs(Decode(last.text).stream)

\* C3: whenever play_violin_mp3_library has initialized the mixer, the mixer
\* is torn down again when the call is over
C3_MixerTornDown ==
    (last.op = "play" /\ last.inited) => mixer = "quit"

Stages == {"update", "get_notes", "play", "oemer", "process"}

\* C4: every stage exposed to the orchestrator returns a status string in
\* every outcome: no exception escapes and no None is returned
C4_StagesReturnStrings ==
    last.op \in Stages => last.ret.kind = "str"

\* C5: when the OMR tier fails, the vision fallback tier is attempted before
\* the transcription stage reports its result
C5_VisionAfterOmrFailure ==
    (last.op = "transcribe" /\ last.omr # "ok") => last.visionTried

\* total blocking time of the notes of a document, in milliseconds
RECURSIVE TotalMs(_)
TotalMs(els) ==
    IF els = <<>> THEN 0
    ELSE (IF Head(els).isNote THEN (Head(els).ql * 600) \div 4 ELSE 0) + TotalMs(Tail(els))

MissingWarnings(msg) == {k \in 1..Len(msg) : msg[k][1] = "missing"}

PlayFinished == last.op = "play" /\ last.ret.status = "finished"

\* C6: when every present sample plays without error, the session blocks for
\* the sum of all notes' durations times the seconds-per-beat constant and
\* reports one missing-from-library warning per note whose sample is missing
C6_BlocksForSumAndWarnsPerMissing ==
    (PlayFinished /\ \A i \in DOMAIN last.modes : last.modes[i] = "ok") =>
        LET els == fs[last.path].els
        IN  /\ last.slept = TotalMs(els)
            /\ Cardinality(MissingWarnings(last.ret.notes))
                 = Cardinality({i \in 1..Len(els) :
                                  els[i].isNote /\ SampleFile(els[i].pitch) \notin assets})

\* one present and one missing sample: both durations slept, one warning
C6_Witness ==
    /\ PlayFinished
    /\ \A i \in DOMAIN last.modes : last.modes[i] = "ok"
    /\ Len(fs[last.path].els) = 2
    /\ \A i \in 1..2 : fs[last.path].els[i].isNote
    /\ SampleFile(fs[last.path].els[1].pitch) \notin assets
    /\ SampleFile(fs[last.path].els[2].pitch) \in assets
    /\ Cardinality(MissingWarnings(last.ret.notes)) = 1
    /\ last.slept = 1500

\* C9: a failure while playing one note's sample is recorded in the message
\* and not propagated: every note of the document is still visited in order
\* and the session ends with the finished message
C9_PlayFailureDoesNotAbort ==
    (last.op = "play" /\ \E i \in DOMAIN last.modes : last.modes[i] # "ok") =>
        LET els == fs[last.path].els
        IN  /\ last.ret.kind = "str"
            /\ last.ret.status = "finished"
            /\ {last.visited[k] : k \in 1..Len(last.visited)}
                 = {i \in 1..Len(els) : els[i].isNote}
            /\ \A k \in 1..(Len(last.visited) - 1) : last.visited[k] < last.visited[k + 1]
            /\ \A i \in DOMAIN last.modes :
                  last.modes[i] # "ok" =>
                      \E k \in 1..Len(last.ret.notes) :
                          last.ret.notes[k] = <<"error", SampleFile(els[i].pitch)>>

\* the first note fails and a later note is still played
C9_Witness ==
    /\ PlayFinished
    /\ Len(fs[last.path].els) >= 2
    /\ last.modes[1] # "ok"
    /\ Len(last.visited) >= 2
    /\ last.ret.notes[Len(last.ret.notes)][1] = "playing"

\* C10: get_notes_from_xml on a path that does not exist returns the
\* not-found text without parsing or creating any document
C10_MissingPathNotFound ==
    [][(last'.op = "get_notes" /\ fs[last'.path].kind = "absent")
         => /\ last'.ret.kind = "str"
            /\ last'.ret.status = "not_found"
            /\ ~last'.parsed
            /\ fs' = fs]_vars

\* a summary of a missing path asked while another document exists
C10_Witness ==
    /\ last.op = "get_notes"
    /\ last.path = MissingPath
    /\ fs[MissingPath].kind = "absent"
    /\ fs[StorePath].kind = "score"

\* C14: after clear_conversation_history is used, the message list the
\* next model invocation sees holds no message from before the clear
C14_ClearRemovesEarlierMessages ==
    node = "model_response" =>
        \A k \in 1..Len(messages) :
            messages[k] = ResetNotice => \A i \in 1..(k - 1) : messages[i] = ResetNotice

Answered(i, c) ==
    \E j \in (i + 1)..Len(messages) :
        messages[j].type = "tool" /\ messages[j].tool_call_id = c.id

\* C16: when the model is invoked, every tool call of every earlier model
\* response has a ToolMessage with that call's id after it, whatever the
\* number of calls in the response and whichever the tool
C16_EveryToolCallAnswered ==
    node = "model_response" =>
        \A i \in 1..Len(messages) :
            \A n \in 1..Len(messages[i].tool_calls) :
                Answered(i, messages[i].tool_calls[n])

====
